---- MODULE Spec2Model ----
(***************************************************************************)
(* Runner: function registry (FunctionLoader), scheduler (Scheduler),      *)
(* execution history (HistoryManager) and the application object (Runner)  *)
(* that wires them together.                                               *)
(*                                                                         *)
(* One action is one turn of the JavaScript event loop (a macrotask with   *)
(* the microtasks it queues), except where an `await` really suspends a    *)
(* handler: an awaited task body, and the directory loop of loadFunctions. *)
(***************************************************************************)
EXTENDS Integers, Sequences, FiniteSets, Bags, TLC

VARIABLES
    day,                \* the clock: whole days elapsed since the first reading
    now,                \* the clock: milliseconds on top of `day` (Date.now(), new Date())
    acted,              \* the timers and menu items that acted at this clock reading
    source,             \* the functions/ directory: directory name -> unit
    edits,              \* observer: number of changes made to functions/
    pc,                 \* Runner: "init", "loading", "ready", "reloading"
    passNo,             \* number of discovery passes started (the `loaded` stamp)
    loadQueue,          \* loadFunctions: directories still to visit in this pass
    loadAcc,            \* loadFunctions: the local array `functions` (as a set)
    loadedFunctions,    \* FunctionLoader.loadedFunctions (Map id -> descriptor)
    runnerFunctions,    \* Runner.functions (as a set)
    menu,               \* the tray context menu: id -> [func, enabled]
    schedulerUp,        \* Runner.scheduler # null
    scheduledTasks,     \* Scheduler.scheduledTasks (Map id -> timer handle)
    liveTimers,         \* node-cron timers that still fire (bag of handles)
    runningExecutions,  \* Scheduler.runningExecutions (Map id -> executionId)
    history,            \* HistoryManager.history.functions (in memory)
    disk,               \* data/history.json as last written
    inflight,           \* executeFunction calls suspended at `await func.execute()`
    counts,             \* observer: per id, triggers received / accepted, bodies invoked
    proc,               \* observer: this process (stop() calls, start time, what it took over)
    last                \* observer: what the last step did

vars == <<day, now, acted, source, edits, pc, passNo, loadQueue, loadAcc, loadedFunctions,
          runnerFunctions, menu, schedulerUp, scheduledTasks, liveTimers,
          runningExecutions, history, disk, inflight, counts, proc, last>>

(***************************************************************************)
(* Bounds of the model.                                                    *)
(***************************************************************************)
MaxTime == 1        \* the clock runs over 0..MaxTime
MaxRecs == 3        \* triggers (hence records), all tasks together
MaxPasses == 2      \* discovery passes (start-up plus reloads)
MaxAppRecs == 1     \* triggers while the functions/ directory is being edited
MaxEdits == 2       \* changes made to the functions/ directory
MaxStops == 2       \* clicks on Quit in one process
MaxLifeRecs == 2    \* triggers over the processes of an application that restarts
MaxHistRecs == 2    \* records written through the HistoryManager interface
MaxStampTime == 1   \* records are written while the clock reads 0..MaxStampTime of day 0
MaxLimit == 1       \* limits passed to getExecutionHistory besides its default
MaxDiskRecs == 2    \* records written while writes to history.json may fail

Dirs == {"a", "b"}          \* directory names that may exist under functions/

Null == -1                  \* JavaScript null in a numeric field
NoError == "<null>"         \* JavaScript null in the error field
Messages == {"disk full"}   \* messages a failing body may carry

MinuteMs == 60000           \* getLastRunText: milliseconds in a minute
HourMs == 3600000           \* getLastRunText: milliseconds in an hour
DayMs == 86400000           \* getLastRunText: milliseconds in a day
MonthDays == 30             \* getLastRunText: 2592000000 ms = MonthDays * DayMs
DefaultLimit == 10          \* getExecutionHistory(functionId, limit = 10)
DefaultMaxAge == 30         \* cleanupOldHistory(maxAge = 30)

(***************************************************************************)
(* Units of the functions/ directory.  A unit is what loadFunction finds   *)
(* for one directory name.  Field values are abstracted to what the code   *)
(* tests: truthiness and typeof.                                           *)
(***************************************************************************)
NoDir == [index |-> "nodir", name |-> "undefined", execute |-> "undefined",
          schedule |-> "undefined", description |-> "undefined"]
NoIndex == [index |-> "missing", name |-> "undefined", execute |-> "undefined",
            schedule |-> "undefined", description |-> "undefined"]
Throws == [index |-> "throws", name |-> "undefined", execute |-> "undefined",
           schedule |-> "undefined", description |-> "undefined"]
Module(n, e, s) == [index |-> "ok", name |-> n, execute |-> e, schedule |-> s,
                    description |-> "undefined"]
Described(n, e, s, d) == [Module(n, e, s) EXCEPT !.description = d]

Truthy(v) == v \notin {"undefined", "emptystring", "zero", "null"}
TypeofString(v) == v \in {"emptystring", "string", "cron", "badcron"}
TypeofFunction(v) == v = "function"

validateFunction(m) ==
    IF ~Truthy(m.name) \/ ~TypeofString(m.name) THEN FALSE
    ELSE IF ~Truthy(m.execute) \/ ~TypeofFunction(m.execute) THEN FALSE
    ELSE IF Truthy(m.schedule) /\ ~TypeofString(m.schedule) THEN FALSE
    ELSE IF Truthy(m.description) /\ ~TypeofString(m.description) THEN FALSE
    ELSE TRUE

\* functionModule.schedule || null
ScheduleOrNull(s) == IF Truthy(s) THEN s ELSE "null"

\* functionModule.description || ''
DescriptionOrEmpty(d) == IF Truthy(d) THEN d ELSE "emptystring"

\* loadFunction(dirName): <<>> for `return null`, else <<functionObj>>.
loadFunction(dirName, unit, stamp) ==
    IF unit.index # "ok" THEN <<>>
    ELSE IF ~validateFunction(unit) THEN <<>>
    ELSE << [id |-> dirName, name |-> unit.name,
             description |-> DescriptionOrEmpty(unit.description),
             schedule |-> ScheduleOrNull(unit.schedule), loaded |-> stamp] >>

\* a cron.validate that accepts every non-empty string
cronAccepts(s) == Truthy(s)

\* cron.validate of node-cron on the abstract schedule values
cronValidate(s) == s = "cron"

(***************************************************************************)
(* HistoryManager (history.js).  A history is a function from the task ids *)
(* that have an entry to [name, executions]; an execution is a record      *)
(* [id, startTime, endTime, status, error, duration].                      *)
(***************************************************************************)

\* Date.now().toString(): the decimal string of the clock reading.  Decimal
\* strings of naturals are compared with ===, which agrees with equality of
\* the numbers they denote, so an id is kept as the number.
NewExecutionId(t) == t

\* a saveHistory that leaves the file as it is
saveNothing(h, file) == file

\* saveHistory(): JSON.stringify of the whole in-memory history to the file.
saveHistory(h, file) == h

\* saveHistory() when mkdirSync or writeFileSync may throw (no permission, a
\* read-only volume): the exception is caught and logged, and the file is as
\* it was.
WriteOutcomes == {"written", "refused"}

writeHistory(h, file, outcome) ==
    IF outcome = "written" THEN saveHistory(h, file) ELSE file

\* The execution object literal of recordExecutionStart.
NewExecution(t) ==
    [id |-> NewExecutionId(t), startTime |-> t, endTime |-> Null,
     status |-> "running", error |-> NoError, duration |-> Null]

\* a start that begins the task's list anew
recordExecutionStartAnew(h, functionId, functionName, t) ==
    [f \in DOMAIN h \cup {functionId} |->
        IF f = functionId
        THEN [name |-> functionName, executions |-> <<NewExecution(t)>>]
        ELSE h[f]]

\* recordExecutionStart(functionId, functionName) at clock reading t: the
\* in-memory history afterwards.  The id returned is NewExecutionId(t).
recordExecutionStart(h, functionId, functionName, t) ==
    LET entry == IF functionId \in DOMAIN h THEN h[functionId]
                 ELSE [name |-> functionName, executions |-> <<>>]
        grown == [entry EXCEPT !.executions = Append(@, NewExecution(t))]
    IN  [f \in DOMAIN h \cup {functionId} |->
            IF f = functionId THEN grown ELSE h[f]]

\* a find that settles for the first record when none matches
FindExecutionOrFirst(executions, executionId) ==
    LET hits == {i \in 1..Len(executions) : executions[i].id = executionId}
    IN  IF executions = <<>> THEN 0
        ELSE IF hits = {} THEN 1
        ELSE CHOOSE i \in hits : \A j \in hits : i <= j

\* executions.find(e => e.id === executionId): index of the first match, 0
\* when there is none.
FindExecution(executions, executionId) ==
    LET hits == {i \in 1..Len(executions) : executions[i].id = executionId}
    IN  IF hits = {} THEN 0
        ELSE CHOOSE i \in hits : \A j \in hits : i <= j

\* recordExecutionEnd(functionId, executionId, success, error) at clock
\* reading t: the in-memory history afterwards.
recordExecutionEnd(h, functionId, executionId, success, error, t) ==
    IF functionId \notin DOMAIN h THEN h
    ELSE LET i == FindExecution(h[functionId].executions, executionId)
         IN  IF i = 0 THEN h
             ELSE LET execution == h[functionId].executions[i]
                  IN  [h EXCEPT ![functionId].executions[i] =
                         [execution EXCEPT
                            !.endTime = t,
                            !.status = IF success THEN "success" ELSE "failed",
                            !.error = error,
                            !.duration = t - execution.startTime]]

\* Whether recordExecutionEnd reaches its saveHistory() call.
recordExecutionEndSaves(h, functionId, executionId) ==
    /\ functionId \in DOMAIN h
    /\ FindExecution(h[functionId].executions, executionId) # 0

\* a loadHistory that starts from the empty document
loadHistoryEmpty(file) == [x \in {} |-> x]

\* loadHistory(): the document read back from history.json (a missing file
\* gives the empty document, which is then written)
loadHistory(file) == file

Executions(h, f) == IF f \in DOMAIN h THEN h[f].executions ELSE <<>>

RECURSIVE SumLen(_, _)
SumLen(h, ids) ==
    IF ids = {} THEN 0
    ELSE LET f == CHOOSE x \in ids : TRUE
         IN  Len(h[f].executions) + SumLen(h, ids \ {f})

TotalRecords(h) == SumLen(h, DOMAIN h)

\* getLastExecution(functionId): <<>> for null, else <<execution>>
getLastExecution(h, functionId) ==
    IF functionId \notin DOMAIN h THEN <<>>
    ELSE IF Len(h[functionId].executions) = 0 THEN <<>>
    ELSE << h[functionId].executions[Len(h[functionId].executions)] >>

\* now.getTime() - executionTime.getTime() for the clock reading (d, t) and
\* a stamp of day 0, as whole days and the milliseconds on top of them (the
\* difference itself exceeds 32 bits after 24 days).  Clock readings and
\* stamps are less than a day apart in their milliseconds.
Elapsed(d, t, stamp) ==
    IF t >= stamp
    THEN [days |-> d + ((t - stamp) \div DayMs), ms |-> (t - stamp) % DayMs]
    ELSE [days |-> d - 1, ms |-> (t - stamp) + DayMs]

\* a comparison that lets the boundary itself through
AtMost(diff, wholeDays, ms) ==
    \/ diff.days < wholeDays
    \/ (diff.days = wholeDays /\ diff.ms <= ms)

\* diffMs < wholeDays * 86400000 + ms
Below(diff, wholeDays, ms) ==
    \/ diff.days < wholeDays
    \/ (diff.days = wholeDays /\ diff.ms < ms)

\* a text that is always in the plural
AgoPlural(n, unit) == [unit |-> unit, n |-> n, s |-> TRUE]

\* `${n} ${unit}${n === 1 ? '' : 's'} ago`, and the texts without a number
Ago(n, unit) == [unit |-> unit, n |-> n, s |-> n # 1]

Fixed(text) == [unit |-> text, n |-> 0, s |-> FALSE]

\* executionTime.toLocaleDateString(): the calendar day of the stamp
LocaleDate(stampDay) == [unit |-> "date", n |-> stampDay, s |-> FALSE]

\* getLastRunText(functionId) at the clock reading (d, t)
getLastRunText(h, functionId, d, t) ==
    LET lastExecution == getLastExecution(h, functionId)
    IN  IF lastExecution = <<>> THEN Fixed("Never")
        ELSE LET executionTime == IF lastExecution[1].endTime # Null
                                  THEN lastExecution[1].endTime
                                  ELSE lastExecution[1].startTime
                 diff == Elapsed(d, t, executionTime)
             IN  IF Below(diff, 0, MinuteMs) THEN Fixed("Just now")
                 ELSE IF Below(diff, 0, HourMs)
                      THEN Ago(diff.ms \div MinuteMs, "minute")
                 ELSE IF Below(diff, 1, 0)
                      THEN Ago(diff.ms \div HourMs, "hour")
                 ELSE IF Below(diff, MonthDays, 0)
                      THEN Ago(diff.days, "day")
                 ELSE LocaleDate(0)

\* Array.prototype.slice(start) with one argument: a negative start counts
\* from the end, and -0 is 0.
Slice(seq, start) ==
    LET k == IF start < 0
             THEN (IF Len(seq) + start > 0 THEN Len(seq) + start ELSE 0)
             ELSE (IF start < Len(seq) THEN start ELSE Len(seq))
    IN  [i \in 1..(Len(seq) - k) |-> seq[k + i]]

Reverse(seq) == [i \in 1..Len(seq) |-> seq[Len(seq) + 1 - i]]

\* getExecutionHistory(functionId, limit)
getExecutionHistory(h, functionId, limit) ==
    IF functionId \notin DOMAIN h THEN <<>>
    ELSE Reverse(Slice(h[functionId].executions, 0 - limit))

\* a / b of two numbers, b > 0, as the fraction in lowest terms (JavaScript
\* gives the nearest double, equal for equal fractions)
RECURSIVE GCD(_, _)
GCD(a, b) == IF b = 0 THEN a ELSE GCD(b, a % b)

Quotient(a, b) ==
    IF a = 0 THEN [num |-> 0, den |-> 1]
    ELSE [num |-> a \div GCD(a, b), den |-> b \div GCD(a, b)]

Zero == [num |-> 0, den |-> 1]

RECURSIVE SumDurations(_)
SumDurations(seq) ==
    IF seq = <<>> THEN 0 ELSE Head(seq).duration + SumDurations(Tail(seq))

WithStatus(executions, status) ==
    SelectSeq(executions, LAMBDA e : e.status = status)

\* executions.filter(e => e.duration): null and 0 are falsy
TruthyDuration(e) == e.duration # Null /\ e.duration # 0

\* a count that takes every ended record for a success
CountEnded(executions, status) ==
    Len(SelectSeq(executions, LAMBDA e : e.status # "running"))

\* executions.filter(e => e.status === status).length
CountStatus(executions, status) == Len(WithStatus(executions, status))

\* getFunctionStats(functionId)
getFunctionStats(h, functionId) ==
    IF functionId \notin DOMAIN h
    THEN [totalExecutions |-> 0, successfulExecutions |-> 0, failedExecutions |-> 0,
          averageDuration |-> Zero, successRate |-> Zero]
    ELSE LET executions == h[functionId].executions
             durationsMs == SelectSeq(executions, TruthyDuration)
         IN  [totalExecutions |-> Len(executions),
              successfulExecutions |-> CountStatus(executions, "success"),
              failedExecutions |-> CountStatus(executions, "failed"),
              averageDuration |->
                  IF Len(durationsMs) > 0
                  THEN Quotient(SumDurations(durationsMs), Len(durationsMs))
                  ELSE Zero,
              successRate |->
                  IF Len(executions) > 0
                  THEN Quotient(CountStatus(executions, "success"), Len(executions))
                  ELSE Zero]

\* new Date(execution.startTime) > cutoffTime, the cutoff being the clock
\* reading (d, t) set back by maxAge days, the stamp being of day 0
AfterCutoff(startTime, maxAge, d, t) ==
    \/ d - maxAge < 0
    \/ (d - maxAge = 0 /\ startTime > t)

\* cleanupOldHistory(maxAge) at the clock reading (d, t): the in-memory
\* history afterwards
cleanupOldHistory(h, maxAge, d, t) ==
    [f \in DOMAIN h |->
        [h[f] EXCEPT !.executions =
            SelectSeq(@, LAMBDA execution :
                            AfterCutoff(execution.startTime, maxAge, d, t))]]

(***************************************************************************)
(* FunctionLoader (function-loader.js) and Scheduler (scheduler.js):       *)
(* the pure parts.                                                         *)
(***************************************************************************)
EmptyMap == [x \in {} |-> x]

Range(f) == {f[x] : x \in DOMAIN f}

getAllFunctions(loaded) == Range(loaded)

\* getFunction(functionId): <<>> for null, else <<functionObj>>
getFunction(loaded, functionId) ==
    IF functionId \in DOMAIN loaded THEN <<loaded[functionId]>> ELSE <<>>

getScheduledFunctions(loaded) ==
    {func \in getAllFunctions(loaded) : Truthy(func.schedule)}

\* loadedFunctions.set(dirName, functionObj) for the result of loadFunction
SetLoaded(loaded, got) ==
    IF got = <<>> THEN loaded
    ELSE [d \in DOMAIN loaded \cup {got[1].id} |->
            IF d = got[1].id THEN got[1] ELSE loaded[d]]

\* a reloadFunctions that does not clear the registry
KeepLoaded(loaded) == loaded

\* this.loadedFunctions.clear() of reloadFunctions
ClearLoaded(loaded) == EmptyMap

\* readdirSync(...).filter(isDirectory): the directories present, in an order
\* the file system chooses
Listings(src) ==
    LET present == {d \in Dirs : src[d].index # "nodir"}
    IN  {q \in UNION {[1..n -> present] : n \in {Cardinality(present)}} :
            \A i, j \in DOMAIN q : i # j => q[i] # q[j]}

\* The executions a set of suspended executeFunction calls stands for
InFlight(calls) == {<<call.func.id, call.idx>> : call \in calls}

\* The timer handle cron.schedule returns: its callback closes over func.
Timer(func) == [func |-> func]

\* a scheduleFunction that does not validate the expression
SchedulableUnchecked(func) == Truthy(func.schedule)

\* scheduleFunction(func): whether a timer is created for func
Schedulable(func) == Truthy(func.schedule) /\ cronValidate(func.schedule)

\* stop() that forgets the handles without destroying them
DestroyNone(timers, tasks) == timers

\* stop(): task.destroy() on every handle of scheduledTasks
DestroyAll(timers, tasks) == timers (-) SetToBag(Range(tasks))

\* scheduleAllFunctions() after stop(): the new scheduledTasks
ScheduleAll(loaded) ==
    LET funcs == {func \in getScheduledFunctions(loaded) : Schedulable(func)}
    IN  [id \in {func.id : func \in funcs} |->
            Timer(CHOOSE func \in funcs : func.id = id)]

\* the timers cron.schedule starts for a scheduledTasks map
Started(timers, tasks) == timers (+) SetToBag(Range(tasks))

\* a stop() that keeps its map of handles
KeepTasks(tasks) == tasks

\* this.scheduledTasks.clear()
ClearTasks(tasks) == EmptyMap

\* stop(): destroy every handle held, then clear the map.  The result is the
\* scheduler's [tasks, timers] afterwards.
stop(tasks, timers) ==
    [tasks |-> ClearTasks(tasks), timers |-> DestroyAll(timers, tasks)]

\* the scheduledTasks.set(func.id, task) calls of one scheduleAllFunctions
SetTasks(tasks, created) ==
    [id \in DOMAIN tasks \cup DOMAIN created |->
        IF id \in DOMAIN created THEN created[id] ELSE tasks[id]]

\* scheduleAllFunctions(): stop(), then scheduleFunction for every element of
\* getScheduledFunctions()
scheduleAllFunctions(tasks, timers, loaded) ==
    LET stopped == stop(tasks, timers)
        created == ScheduleAll(loaded)
    IN  [tasks |-> SetTasks(stopped.tasks, created),
         timers |-> Started(stopped.timers, created)]

start(tasks, timers, loaded) == scheduleAllFunctions(tasks, timers, loaded)

\* a reschedule() that schedules without stopping first
rescheduleOnTop(tasks, timers, loaded) ==
    [tasks |-> SetTasks(tasks, ScheduleAll(loaded)),
     timers |-> Started(timers, ScheduleAll(loaded))]

reschedule(tasks, timers, loaded) == scheduleAllFunctions(tasks, timers, loaded)

\* a RunningSet taken over from the process before
RunningRestored(running) == running

\* the constructor's this.runningExecutions = new Map()
RunningAtConstruction(running) == EmptyMap

\* a guard that is shared by all tasks
AnyRunning(running, id) == DOMAIN running # {}

\* a guard that never finds the task running
NeverRunning(running, id) == FALSE

\* a guard that finds only executions started through the current descriptors
RunningThisPass(running, id) ==
    \E call \in inflight : call.func.id = id /\ call.func.loaded = passNo

\* runningExecutions.has(func.id)
AlreadyRunning(running, id) == id \in DOMAIN running

\* an executeFunction that does not enter the task in the RunningSet
SkipRunning(running, id, executionId) == running

\* runningExecutions.set(func.id, executionId)
SetRunning(running, id, executionId) ==
    [f \in DOMAIN running \cup {id} |-> IF f = id THEN executionId ELSE running[f]]

\* a clean-up that leaves the entry in place
KeepRunning(running, id) == running

\* runningExecutions.delete(func.id)
DeleteRunning(running, id) == [f \in DOMAIN running \ {id} |-> running[f]]

isFunctionRunning(functionId) == functionId \in DOMAIN runningExecutions

\* An object literal { key: value, ... }: a key written twice keeps the
\* value written last.
ObjectLiteral(properties) ==
    [key \in {properties[i][1] : i \in DOMAIN properties} |->
        LET i == CHOOSE i \in DOMAIN properties :
                    /\ properties[i][1] = key
                    /\ \A j \in DOMAIN properties : properties[j][1] = key => j <= i
        IN  properties[i][2]]

Number(n) == [type |-> "number", number |-> n, elements |-> {}]

\* Array.from(map.keys()), as the set of its elements
ArrayOf(elements) == [type |-> "array", number |-> 0, elements |-> elements]

\* getStatus()
getStatus(tasks, running) ==
    ObjectLiteral(<< <<"scheduledFunctions", Number(Cardinality(DOMAIN tasks))>>,
                     <<"runningExecutions", Number(Cardinality(DOMAIN running))>>,
                     <<"scheduledTasks", ArrayOf(DOMAIN tasks)>>,
                     <<"runningExecutions", ArrayOf(DOMAIN running)>> >>)

\* buildMenu(): one item per element of this.functions
buildMenu(functions, up) ==
    [id \in {func.id : func \in functions} |->
        [func |-> CHOOSE func \in functions : func.id = id,
         enabled |-> ~(up /\ isFunctionRunning(id))]]

(***************************************************************************)
(* Initial state: the Runner constructor has run (FunctionLoader,          *)
(* HistoryManager and NotificationManager constructed, no history file),   *)
(* app.whenReady() has not resolved yet.                                   *)
(***************************************************************************)
CronModule == Module("string", "function", "cron")
ManualModule == Module("string", "function", "undefined")
BadCronModule == Module("string", "function", "badcron")
NamelessModule == Module("undefined", "function", "cron")

\* What functions/ holds when the application starts.
InitialSources ==
    {[d \in Dirs |-> CronModule],
     [d \in Dirs |-> IF d = "a" THEN CronModule ELSE NoDir]}

NoCount == [triggers |-> 0, accepted |-> 0, invoked |-> 0]

\* A process that has just been launched at clock reading t, after a process
\* that ended with the ids of `running` in its RunningSet.
NewProcess(t, running) ==
    [stops |-> 0, stopped |-> FALSE, bootedAt |-> t, crashed |-> running, held |-> {},
     scanned |-> EmptyMap]

NoEvent == [op |-> "none", id |-> "", idx |-> 0, executionId |-> Null,
            wasRunning |-> FALSE, outcome |-> "none", message |-> NoError,
            shown |-> 0, thrown |-> "none", scheduled |-> FALSE, ids |-> {},
            unhandled |-> FALSE, held |-> FALSE, unchanged |-> FALSE,
            limit |-> 0, maxAge |-> 0, result |-> <<>>, text |-> <<>>, wrote |-> "none"]

Init ==
    /\ day = 0
    /\ now = 0
    /\ acted = {}
    /\ source \in InitialSources
    /\ edits = 0
    /\ pc = "init"
    /\ passNo = 0
    /\ loadQueue = <<>>
    /\ loadAcc = {}
    /\ loadedFunctions = EmptyMap
    /\ runnerFunctions = {}
    /\ menu = EmptyMap
    /\ schedulerUp = FALSE
    /\ scheduledTasks = EmptyMap
    /\ liveTimers = EmptyBag
    /\ runningExecutions = EmptyMap
    /\ history = EmptyMap
    /\ disk = EmptyMap
    /\ inflight = {}
    /\ counts = [d \in Dirs |-> NoCount]
    /\ proc = NewProcess(0, {})
    /\ last = NoEvent

execVars == <<runningExecutions, history, disk, inflight, counts>>
loadVars == <<passNo, loadQueue, loadAcc, loadedFunctions, runnerFunctions>>
schedVars == <<schedulerUp, scheduledTasks, liveTimers>>

(***************************************************************************)
(* The clock and the functions/ directory change outside the program.  The *)
(* directory is taken not to change during a discovery pass, which runs    *)
(* without yielding to the event loop.                                     *)
(***************************************************************************)
Tick ==
    /\ now < MaxTime
    /\ now' = now + 1
    /\ acted' = {}
    /\ last' = NoEvent
    /\ UNCHANGED <<day, source, edits, pc, menu, proc, execVars, loadVars, schedVars>>

EditKinds == {NoDir, NoIndex, CronModule, ManualModule, BadCronModule}

EditSource ==
    \E d \in Dirs, u \in EditKinds :
        /\ edits < MaxEdits
        /\ pc \in {"init", "ready"}
        /\ u # source[d]
        /\ source' = [source EXCEPT ![d] = u]
        /\ edits' = edits + 1
        /\ last' = NoEvent
        /\ UNCHANGED <<day, now, acted, pc, menu, proc, execVars, loadVars, schedVars>>

(***************************************************************************)
(* FunctionLoader.loadFunctions: the part that runs before its first       *)
(* `await` (the listing, and loadFunction of the first directory, which    *)
(* contains no await and so has run to its end when the await is reached). *)
(***************************************************************************)
\* a pass that gives up at a first unit that is invalid
BeginPassAborting(loaded, q) ==
    LET got == IF q = <<>> THEN <<>>
               ELSE loadFunction(q[1], source[q[1]], passNo + 1)
    IN  /\ passNo' = passNo + 1
        /\ loadedFunctions' = SetLoaded(loaded, got)
        /\ loadAcc' = Range(got)
        /\ loadQueue' = IF q = <<>> \/ got = <<>> THEN <<>> ELSE Tail(q)

BeginPass(loaded, q) ==
    LET got == IF q = <<>> THEN <<>>
               ELSE loadFunction(q[1], source[q[1]], passNo + 1)
    IN  /\ passNo' = passNo + 1
        /\ loadedFunctions' = SetLoaded(loaded, got)
        /\ loadAcc' = Range(got)
        /\ loadQueue' = IF q = <<>> THEN <<>> ELSE Tail(q)

\* Runner.init's whenReady callback: createTray(); loadFunctions() (not
\* awaited); initializeScheduler(); buildMenu().
AppReady ==
    /\ pc = "init"
    /\ \E q \in Listings(source) : BeginPass(loadedFunctions, q)
    /\ schedulerUp' = TRUE
    /\ LET started == start(scheduledTasks, liveTimers, loadedFunctions')
       IN  /\ scheduledTasks' = started.tasks
           /\ liveTimers' = started.timers
    /\ menu' = buildMenu(runnerFunctions, TRUE)
    /\ pc' = "loading"
    /\ proc' = [proc EXCEPT !.stopped = FALSE]
    /\ last' = [NoEvent EXCEPT !.op = "started"]
    /\ UNCHANGED <<day, now, acted, source, edits, runnerFunctions, execVars>>

\* Runner.reloadFunctions up to the first await inside loadFunctions.
ReloadClick ==
    /\ pc = "ready"
    /\ passNo < MaxPasses
    /\ \E q \in Listings(source) : BeginPass(ClearLoaded(loadedFunctions), q)
    /\ pc' = "reloading"
    /\ last' = NoEvent
    /\ UNCHANGED <<day, now, acted, source, edits, runnerFunctions, menu, proc, execVars,
                   schedVars>>

\* One resumption of the loop of loadFunctions: the next directory, or, the
\* directories exhausted, the return to the awaiting Runner method.
LoadStep ==
    /\ pc \in {"loading", "reloading"}
    /\ IF loadQueue # <<>>
       THEN LET d == Head(loadQueue)
                got == loadFunction(d, source[d], passNo)
            IN  /\ last' = NoEvent
                /\ loadedFunctions' = SetLoaded(loadedFunctions, got)
                /\ loadAcc' = loadAcc \cup Range(got)
                /\ loadQueue' = Tail(loadQueue)
                /\ UNCHANGED <<day, now, acted, source, edits, pc, passNo, runnerFunctions, menu,
                               proc, execVars, schedVars>>
       ELSE /\ runnerFunctions' = loadAcc
            /\ pc' = "ready"
            /\ last' = [NoEvent EXCEPT
                          !.op = IF pc = "reloading" THEN "reloaded" ELSE "loaded",
                          !.ids = {func.id : func \in runnerFunctions},
                          !.unchanged = (proc.scanned = source)]
            /\ IF pc = "reloading"
               THEN \* this.scheduler.reschedule(); this.buildMenu()
                    LET rescheduled == reschedule(scheduledTasks, liveTimers,
                                                  loadedFunctions)
                    IN  /\ scheduledTasks' = rescheduled.tasks
                        /\ liveTimers' = rescheduled.timers
                        /\ menu' = buildMenu(loadAcc, schedulerUp)
                        /\ proc' = [proc EXCEPT !.stopped = FALSE,
                                                !.held = InFlight(inflight),
                                                !.scanned = source]
                        /\ UNCHANGED schedulerUp
               ELSE /\ proc' = [proc EXCEPT !.scanned = source]
                    /\ UNCHANGED <<menu, schedVars>>
            /\ UNCHANGED <<day, now, acted, source, edits, passNo, loadQueue, loadAcc,
                           loadedFunctions, execVars>>

\* tray 'click': buildMenu()
TrayClick ==
    /\ pc = "ready"
    /\ menu' = buildMenu(runnerFunctions, schedulerUp)
    /\ menu' # menu
    /\ last' = NoEvent
    /\ UNCHANGED <<day, now, acted, source, edits, pc, proc, execVars, loadVars, schedVars>>

(***************************************************************************)
(* Scheduler.executeFunction.                                              *)
(***************************************************************************)
\* Whether the caller of executeFunction handles its rejection: the timer
\* callback drops the promise, Runner.executeFunction awaits it in a try
\* block whose catch reads error.message of an Error.
callerCatches(isScheduled) == ~isScheduled

\* The ways the guard's early return could end the call: what the code does,
\* after a variant that treats the rejection as a failure of the task.
rejectAsFailure(executionId) == [shown |-> 1, thrown |-> "error"]

\* the `return` after recordExecutionEnd(..., false, 'Already running')
rejectQuietly(executionId) == [shown |-> 0, thrown |-> "none"]

Bump(c, id, wasRunning, bodyInvoked) ==
    [c EXCEPT ![id] = [triggers |-> @.triggers + 1,
                       accepted |-> @.accepted + (IF wasRunning THEN 0 ELSE 1),
                       invoked  |-> @.invoked + (IF bodyInvoked THEN 1 ELSE 0)]]

\* executeFunction(func, isScheduled) from its call to its first suspension:
\* either the early return of the guard, or the `await func.execute()`.
executeFunction(func, isScheduled) ==
    LET id == func.id
        started == recordExecutionStart(history, id, func.name, now)
        executionId == NewExecutionId(now)
        file == saveHistory(started, disk)
        idx == Len(started[id].executions)
        wasRunning == id \in DOMAIN runningExecutions
        event == [NoEvent EXCEPT !.id = id, !.idx = idx,
                                 !.executionId = executionId,
                                 !.wasRunning = wasRunning,
                                 !.scheduled = isScheduled]
    IN  IF AlreadyRunning(runningExecutions, id)
        THEN LET ended == recordExecutionEnd(started, id, executionId, FALSE,
                                             "Already running", now)
             IN  /\ history' = ended
                 /\ disk' = IF recordExecutionEndSaves(started, id, executionId)
                            THEN saveHistory(ended, file) ELSE file
                 /\ counts' = Bump(counts, id, wasRunning, FALSE)
                 /\ last' = [event EXCEPT !.op = "rejected",
                                          !.shown = rejectQuietly(executionId).shown,
                                          !.thrown = rejectQuietly(executionId).thrown,
                                          !.unhandled =
                                              /\ rejectQuietly(executionId).thrown # "none"
                                              /\ ~callerCatches(isScheduled)]
                 /\ UNCHANGED <<runningExecutions, inflight>>
        ELSE /\ history' = started
             /\ disk' = file
             /\ runningExecutions' = SetRunning(runningExecutions, id, executionId)
             /\ inflight' = inflight \cup
                    {[func |-> func, executionId |-> executionId, idx |-> idx,
                      scheduled |-> isScheduled]}
             /\ counts' = Bump(counts, id, wasRunning, TRUE)
             /\ last' = [event EXCEPT !.op = "accepted"]

\* What a task body may do when it settles: return, throw an Error carrying a
\* message, throw a value without a message property (a string, {}), or
\* throw null / undefined.
Outcomes ==
    {[kind |-> "return", message |-> NoError]}
    \cup {[kind |-> "error", message |-> m] : m \in Messages}
    \cup {[kind |-> "nomessage", message |-> NoError],
          [kind |-> "null", message |-> NoError]}

\* The continuation of executeFunction after `await func.execute()`:
\* the rest of the try block, or the catch block, and then the finally block.
Settle(call, outcome) ==
    LET id == call.func.id
        event == [NoEvent EXCEPT !.op = "settled", !.id = id, !.idx = call.idx,
                                 !.executionId = call.executionId,
                                 !.outcome = outcome.kind,
                                 !.message = outcome.message,
                                 !.scheduled = call.scheduled]
        \* recordExecutionEnd is reached unless evaluating error.message throws
        recorded == outcome.kind # "null"
        ended == recordExecutionEnd(history, id, call.executionId,
                                    outcome.kind = "return", outcome.message, now)
        \* showFailure(name, error.message) throws on error.length when the
        \* message is undefined
        shown == IF outcome.kind = "error" THEN 1 ELSE 0
        thrown == CASE outcome.kind = "return" -> "none"
                    [] outcome.kind = "error" -> "error"
                    [] OTHER -> "TypeError"
        unhandled == thrown # "none" /\ ~callerCatches(call.scheduled)
    IN  /\ history' = IF recorded THEN ended ELSE history
        /\ disk' = IF recorded /\ recordExecutionEndSaves(history, id, call.executionId)
                   THEN saveHistory(ended, disk) ELSE disk
        /\ runningExecutions' = DeleteRunning(runningExecutions, id)
        /\ inflight' = inflight \ {call}
        /\ counts' = counts
        /\ proc' = [proc EXCEPT !.held = @ \ {<<id, call.idx>>}]
        /\ last' = [event EXCEPT !.shown = shown, !.thrown = thrown,
                                 !.unhandled = unhandled,
                                 !.held = <<id, call.idx>> \in proc.held]

\* a timer callback that could run between two resumptions of a pass
TimerFireAnytime ==
    /\ pc \in {"ready", "reloading"}
    /\ \E timer \in BagToSet(liveTimers) :
        /\ TotalRecords(history) < MaxRecs
        /\ <<"timer", timer.func.id>> \notin acted
        /\ acted' = acted \cup {<<"timer", timer.func.id>>}
        /\ executeFunction(timer.func, TRUE)
    /\ UNCHANGED <<day, now, source, edits, pc, menu, proc, loadVars, schedVars>>

\* A node-cron timer fires: () => { this.executeFunction(func, true) }.
\* A timer fires once per matching minute, so not twice at one clock reading.
\* The callback is a task of the event loop: it runs when no chain of
\* promise continuations (a discovery pass) is under way.
TimerFire ==
    /\ pc = "ready"
    /\ \E timer \in BagToSet(liveTimers) :
        /\ TotalRecords(history) < MaxRecs
        /\ <<"timer", timer.func.id>> \notin acted
        /\ acted' = acted \cup {<<"timer", timer.func.id>>}
        /\ executeFunction(timer.func, TRUE)
    /\ UNCHANGED <<day, now, source, edits, pc, menu, proc, loadVars, schedVars>>

\* A click on a function's menu item: Runner.executeFunction(func).  One
\* item is not clicked twice at one clock reading.
ManualClick ==
    /\ pc = "ready"
    /\ \E id \in DOMAIN menu :
        /\ menu[id].enabled
        /\ TotalRecords(history) < MaxRecs
        /\ <<"click", id>> \notin acted
        /\ acted' = acted \cup {<<"click", id>>}
        /\ executeFunction(menu[id].func, FALSE)
    /\ UNCHANGED <<day, now, source, edits, pc, menu, proc, loadVars, schedVars>>

\* The promise of a running body settles.
BodySettles ==
    /\ pc = "ready"
    /\ \E call \in inflight, outcome \in Outcomes : Settle(call, outcome)
    /\ UNCHANGED <<day, now, acted, source, edits, pc, menu, loadVars, schedVars>>

Next ==
    \/ Tick
    \/ AppReady
    \/ LoadStep
    \/ TrayClick
    \/ TimerFire
    \/ ManualClick
    \/ BodySettles

Spec == Init /\ [][Next]_vars

\* The application while its functions/ directory is edited and reloaded.
AppTimerFire == TotalRecords(history) < MaxAppRecs /\ TimerFire

AppManualClick == TotalRecords(history) < MaxAppRecs /\ ManualClick

NextApp ==
    \/ EditSource
    \/ AppReady
    \/ ReloadClick
    \/ LoadStep
    \/ TrayClick
    \/ AppTimerFire
    \/ AppManualClick
    \/ BodySettles

SpecApp == Init /\ [][NextApp]_vars

(***************************************************************************)
(* Discovery over every kind of unit: the good module with one field made  *)
(* otherwise, and two modules with two faults.                             *)
(***************************************************************************)
LoadKinds ==
    {NoDir, NoIndex, Throws, CronModule, ManualModule, BadCronModule, NamelessModule}
    \cup {Module(n, "function", "cron") : n \in {"emptystring", "number"}}
    \cup {Module("string", e, "cron") : e \in {"undefined", "string"}}
    \cup {Module("string", "function", s) : s \in {"emptystring", "zero", "null", "number"}}
    \cup {Described("string", "function", "cron", d) : d \in {"string", "number"}}
    \cup {Module("number", "function", "number"), Module("string", "string", "zero")}

EditUnit ==
    \E d \in Dirs, u \in LoadKinds :
        /\ edits < MaxEdits
        /\ pc \in {"init", "ready"}
        /\ u # source[d]
        /\ source' = [source EXCEPT ![d] = u]
        /\ edits' = edits + 1
        /\ last' = NoEvent
        /\ UNCHANGED <<day, now, acted, pc, menu, proc, execVars, loadVars, schedVars>>

NextLoad ==
    \/ EditUnit
    \/ AppReady
    \/ ReloadClick
    \/ LoadStep

SpecLoad == Init /\ [][NextLoad]_vars

(***************************************************************************)
(* The life of the process.                                                *)
(***************************************************************************)
\* A click on Quit: Runner.shutdown(), that is scheduler.stop() and
\* app.quit().  app.quit() returns to the event loop, which keeps dispatching
\* until the process has ended (Restart).
Shutdown ==
    /\ pc = "ready"
    /\ schedulerUp
    /\ proc.stops < MaxStops
    /\ LET stopped == stop(scheduledTasks, liveTimers)
       IN  /\ scheduledTasks' = stopped.tasks
           /\ liveTimers' = stopped.timers
    /\ proc' = [proc EXCEPT !.stops = @ + 1, !.stopped = TRUE,
                            !.held = InFlight(inflight)]
    /\ last' = [NoEvent EXCEPT !.op = "stopped", !.ids = DOMAIN scheduledTasks]
    /\ UNCHANGED <<day, now, acted, source, edits, pc, menu, schedulerUp, execVars, loadVars>>

\* The process ends, by a crash, a kill or a completed quit, and the
\* application is launched again: `new Runner()` on a later clock reading.
\* Nothing of the old process is left but history.json and functions/.
Restart ==
    /\ now < MaxTime
    /\ now' = now + 1
    /\ acted' = {}
    /\ pc' = "init"
    /\ passNo' = 0
    /\ loadQueue' = <<>>
    /\ loadAcc' = {}
    /\ loadedFunctions' = EmptyMap
    /\ runnerFunctions' = {}
    /\ menu' = EmptyMap
    /\ schedulerUp' = FALSE
    /\ scheduledTasks' = EmptyMap
    /\ liveTimers' = EmptyBag
    /\ runningExecutions' = RunningAtConstruction(runningExecutions)
    /\ history' = loadHistory(disk)
    /\ inflight' = {}
    /\ counts' = [d \in Dirs |-> NoCount]
    /\ proc' = NewProcess(now', DOMAIN runningExecutions)
    /\ last' = [NoEvent EXCEPT !.op = "restarted", !.ids = DOMAIN runningExecutions]
    /\ UNCHANGED <<day, source, edits, disk>>

\* A caller asks the scheduler for its status.
GetStatus ==
    /\ pc = "ready"
    /\ schedulerUp
    /\ last' = [NoEvent EXCEPT !.op = "status",
                               !.result = getStatus(scheduledTasks, runningExecutions)]
    /\ last' # last
    /\ UNCHANGED <<day, now, acted, source, edits, pc, menu, proc, execVars, loadVars,
                   schedVars>>

\* The application over several processes.
LifeTimerFire == TotalRecords(history) < MaxLifeRecs /\ TimerFire

LifeManualClick == TotalRecords(history) < MaxLifeRecs /\ ManualClick

NextLife ==
    \/ AppReady
    \/ LoadStep
    \/ TrayClick
    \/ LifeTimerFire
    \/ LifeManualClick
    \/ BodySettles
    \/ Shutdown
    \/ Restart

SpecLife == Init /\ [][NextLife]_vars

\* The same, with reloads.
NextLifeReload ==
    \/ AppReady
    \/ ReloadClick
    \/ LoadStep
    \/ TrayClick
    \/ LifeTimerFire
    \/ LifeManualClick
    \/ BodySettles
    \/ Shutdown
    \/ Restart

SpecLifeReload == Init /\ [][NextLifeReload]_vars

\* The timers of one process over start, stop, edits and reloads.
NextTimers ==
    \/ EditSource
    \/ AppReady
    \/ LoadStep
    \/ ReloadClick
    \/ Shutdown

SpecTimers == Init /\ [][NextTimers]_vars

\* The awaited body completes: it returns, or it throws an Error.
BodyCompletes ==
    /\ pc = "ready"
    /\ \E call \in inflight :
         \E outcome \in {o \in Outcomes : o.kind \in {"return", "error"}} :
            Settle(call, outcome)
    /\ UNCHANGED <<day, now, acted, source, edits, pc, menu, loadVars, schedVars>>

\* Triggers around reloads of an unchanged functions/ directory.
NextGuard ==
    \/ Tick
    \/ AppReady
    \/ LoadStep
    \/ ReloadClick
    \/ TimerFire
    \/ ManualClick
    \/ BodyCompletes

SpecGuard == Init /\ [][NextGuard]_vars

\* One process, its scheduler started and stopped, and its status.
NextStatus ==
    \/ AppReady
    \/ LoadStep
    \/ TrayClick
    \/ LifeTimerFire
    \/ LifeManualClick
    \/ BodySettles
    \/ Shutdown
    \/ GetStatus

SpecStatus == Init /\ [][NextStatus]_vars

(***************************************************************************)
(* The HistoryManager through its interface: every method with every       *)
(* argument, at clock readings around the boundaries of getLastRunText and *)
(* cleanupOldHistory.  Records are written during the first milliseconds   *)
(* of day 0, so that a stamp is a number of milliseconds.                  *)
(***************************************************************************)
Instants ==
    (0..MaxStampTime) \cup {MinuteMs - 1, MinuteMs, 2 * MinuteMs, HourMs - 1, HourMs,
                            2 * HourMs, DayMs - 1}

\* clock readings <<day, milliseconds>>: every instant of day 0, and the
\* start and the last millisecond of the days around the day boundaries
Readings ==
    {<<0, t>> : t \in Instants} \cup
    {<<d, t>> : d \in {1, MonthDays - 1, MonthDays}, t \in {0, DayMs - 1}}

MaxAges == {0, 1, DefaultMaxAge}

Limits == (0..MaxLimit) \cup {DefaultLimit}

historyRest == <<acted, source, edits, pc, menu, proc, runningExecutions, inflight,
                 counts, loadVars, schedVars>>

ClockJump ==
    \E reading \in Readings :
        /\ reading[1] > day \/ (reading[1] = day /\ reading[2] > now)
        /\ day' = reading[1]
        /\ now' = reading[2]
        /\ last' = NoEvent
        /\ UNCHANGED <<history, disk, historyRest>>

\* The three methods that call saveHistory(), the write ending in one of
\* the given outcomes.
HistoryStartWith(outcomes) ==
    \E f \in Dirs, outcome \in outcomes :
        /\ day = 0
        /\ now <= MaxStampTime
        /\ TotalRecords(history) < MaxHistRecs
        /\ history' = recordExecutionStart(history, f, f, now)
        /\ disk' = writeHistory(history', disk, outcome)
        /\ last' = [NoEvent EXCEPT !.op = "begun", !.id = f,
                                   !.idx = Len(history'[f].executions),
                                   !.executionId = NewExecutionId(now),
                                   !.wrote = outcome]
        /\ UNCHANGED <<day, now, historyRest>>

HistoryEndWith(outcomes) ==
    \E f \in Dirs, executionId \in 0..MaxStampTime, success \in BOOLEAN,
       outcome \in outcomes :
        /\ day = 0
        /\ now <= MaxStampTime
        /\ history' = recordExecutionEnd(history, f, executionId, success,
                                         IF success THEN NoError ELSE "disk full", now)
        /\ disk' = IF recordExecutionEndSaves(history, f, executionId)
                   THEN writeHistory(history', disk, outcome) ELSE disk
        /\ last' = [NoEvent EXCEPT !.op = "ended", !.id = f,
                                   !.executionId = executionId,
                                   !.outcome = IF success THEN "return" ELSE "throw",
                                   !.wrote = IF recordExecutionEndSaves(history, f,
                                                                        executionId)
                                             THEN outcome ELSE "none"]
        /\ UNCHANGED <<day, now, historyRest>>

HistoryCleanupWith(outcomes) ==
    \E maxAge \in MaxAges, outcome \in outcomes :
        /\ history' = cleanupOldHistory(history, maxAge, day, now)
        /\ disk' = writeHistory(history', disk, outcome)
        /\ last' = [NoEvent EXCEPT !.op = "cleaned", !.maxAge = maxAge,
                                   !.wrote = outcome]
        /\ UNCHANGED <<day, now, historyRest>>

\* the same where every write succeeds
HistoryStart == HistoryStartWith({"written"})

HistoryEnd == HistoryEndWith({"written"})

HistoryCleanup == HistoryCleanupWith({"written"})

HistoryQuery ==
    \E f \in Dirs, limit \in Limits :
        /\ last' = [NoEvent EXCEPT !.op = "history", !.id = f, !.limit = limit,
                                   !.result = getExecutionHistory(history, f, limit)]
        /\ last' # last
        /\ UNCHANGED <<day, now, history, disk, historyRest>>

\* The loop of buildMenu over the functions: getLastRunText(func.id) of each.
LastRunText ==
    /\ last' = [NoEvent EXCEPT
                  !.op = "text",
                  !.text = [f \in Dirs |-> getLastRunText(history, f, day, now)]]
    /\ last' # last
    /\ UNCHANGED <<day, now, history, disk, historyRest>>

NextHistory ==
    \/ ClockJump
    \/ HistoryStart
    \/ HistoryEnd
    \/ HistoryCleanup
    \/ HistoryQuery
    \/ LastRunText

FunctionStats ==
    \E f \in Dirs :
        /\ last' = [NoEvent EXCEPT !.op = "stats", !.id = f,
                                   !.result = getFunctionStats(history, f)]
        /\ last' # last
        /\ UNCHANGED <<day, now, history, disk, historyRest>>

\* a HistoryManager constructed where there is no history.json
InitHistory == Init /\ source = [d \in Dirs |-> CronModule]

SpecHistory == InitHistory /\ [][NextHistory]_vars

\* The history store where a write may fail (at one clock reading: the
\* stamps play no part).
DiskStart == TotalRecords(history) < MaxDiskRecs /\ HistoryStartWith(WriteOutcomes)

DiskEnd == HistoryEndWith(WriteOutcomes)

DiskCleanup == HistoryCleanupWith(WriteOutcomes)

NextDisk ==
    \/ DiskStart
    \/ DiskEnd
    \/ DiskCleanup
    \/ LastRunText

SpecDisk == InitHistory /\ [][NextDisk]_vars

\* The records and their statistics.
NextStats ==
    \/ ClockJump
    \/ HistoryStart
    \/ HistoryEnd
    \/ HistoryCleanup
    \/ FunctionStats

SpecStats == InitHistory /\ [][NextStats]_vars

(***************************************************************************)
(* Properties.                                                             *)
(***************************************************************************)
RunningRecords(h, f) ==
    {i \in DOMAIN Executions(h, f) : Executions(h, f)[i].status = "running"}

CallsOf(id) == {call \in inflight : call.func.id = id}

\* C1: no task has two ExecutionRecords with status 'running' at the same
\* instant, in the in-memory history or in the persisted document.
C1_AtMostOneRunningRecord ==
    \A f \in Dirs :
        /\ Cardinality(RunningRecords(history, f)) <= 1
        /\ Cardinality(RunningRecords(disk, f)) <= 1

\* C2: a call of executeFunction for a task that is in the RunningSet does
\* not invoke the body, ends the record it created itself, and no other
\* record of the task, as failed with error 'Already running', and leaves the
\* RunningSet as it was.
C2_RejectedEndsItsOwnRecord ==
    [][(last'.op = "rejected" /\ last'.wasRunning) =>
        LET id == last'.id
            before == Executions(history, id)
            after == Executions(history', id)
        IN  /\ counts'[id].invoked = counts[id].invoked
            /\ inflight' = inflight
            /\ Len(after) = Len(before) + 1
            /\ last'.idx = Len(after)
            /\ after[Len(after)].status = "failed"
            /\ after[Len(after)].error = "Already running"
            /\ \A i \in DOMAIN before : after[i] = before[i]
            /\ runningExecutions' = runningExecutions]_vars

\* C3: when the body of an accepted execution settles, by returning or by
\* throwing anything, the task id is no longer in the RunningSet and nothing
\* of the task is executing; and a trigger that finds the task idle is
\* accepted and invokes the body.
C3_SettledTaskIsIdleAgain ==
    /\ last.op = "settled" =>
        /\ last.id \notin DOMAIN runningExecutions
        /\ CallsOf(last.id) = {}
    /\ (last.op \in {"accepted", "rejected"} /\ ~last.wasRunning) =>
        /\ last.op = "accepted"
        /\ last.id \in DOMAIN runningExecutions
        /\ \E call \in CallsOf(last.id) : call.idx = last.idx

\* C3 witness: a second body of the same task has been started, after the
\* first one failed.
C3_Witness ==
    /\ last.op = "accepted"
    /\ counts[last.id].invoked = 2
    /\ \E i \in DOMAIN Executions(history, last.id) :
           Executions(history, last.id)[i].status = "failed"
              /\ Executions(history, last.id)[i].error \in Messages

\* C4: the bodies invoked for a task are as many as the triggers that found
\* it idle, and while the task is not in the RunningSet none of its bodies is
\* executing: a rejected trigger starts nothing, then or later.
C4_RejectedNeverRuns ==
    \A d \in Dirs :
        /\ counts[d].invoked = counts[d].accepted
        /\ d \notin DOMAIN runningExecutions => CallsOf(d) = {}
        /\ Cardinality(CallsOf(d)) <= 1

\* C4 witness: a trigger was rejected and the execution it ran into has
\* finished since.
C4_Witness ==
    /\ last.op = "settled"
    /\ counts[last.id].triggers > counts[last.id].accepted
    /\ last.id \notin DOMAIN runningExecutions

\* C5: when the body of an accepted execution fails with message m, the
\* record of that execution is 'failed' with error m, showFailure has been
\* called once and the failure is re-thrown to the caller.
C5_FailureRecordedNotifiedRethrown ==
    (last.op = "settled" /\ last.outcome = "error") =>
        LET execution == Executions(history, last.id)[last.idx]
        IN  /\ execution.status = "failed"
            /\ execution.error = last.message
            /\ last.shown = 1
            /\ last.thrown = "error"

\* C6: when the body of an accepted execution returns, the record of that
\* execution is 'success' with error null, no failure is notified and
\* executeFunction does not throw.
C6_SuccessRecorded ==
    (last.op = "settled" /\ last.outcome = "return") =>
        LET execution == Executions(history, last.id)[last.idx]
        IN  /\ execution.status = "success"
            /\ execution.error = NoError
            /\ last.shown = 0
            /\ last.thrown = "none"

\* C7: any two ExecutionRecords of one task have distinct executionIds.
C7_ExecutionIdsDistinct ==
    \A f \in DOMAIN history :
        \A i, j \in DOMAIN history[f].executions :
            i # j => history[f].executions[i].id # history[f].executions[j].id

\* C8: a record that has ended is never changed again, and a record leaves
\* 'running' only in a step of the execution that created it.
C8_RecordMutatedOnce ==
    [][\A f \in DOMAIN history : \A i \in DOMAIN history[f].executions :
        LET before == history[f].executions[i]
            after == history'[f].executions[i]
        IN  /\ before.status # "running" => after = before
            /\ (before.status = "running" /\ after # before) =>
                  /\ last'.op \in {"settled", "rejected"}
                  /\ last'.id = f
                  /\ last'.idx = i]_vars

\* The units of functions/ that load and validate, and the ids whose trigger
\* is live.
ValidIds(src) == {d \in Dirs : loadFunction(d, src[d], 0) # <<>>}

TimerIds == {timer.func.id : timer \in BagToSet(liveTimers)}

\* C9: when a reload (registry reload, then reschedule) has completed, the
\* registry holds exactly the units now in functions/, freshly loaded; a
\* task that was registered before and is gone has no entry in scheduledTasks
\* and no live timer; a task that has come has a live trigger bound to its new
\* descriptor if its schedule is a valid cron expression.  From then on only
\* the timers of scheduledTasks are live, and a scheduled fire is for a
\* registered task.
C9_ReloadInstallsNewSet ==
    /\ last.op = "reloaded" =>
        /\ {func.id : func \in getAllFunctions(loadedFunctions)} = ValidIds(source)
        /\ \A d \in ValidIds(source) :
              loadedFunctions[d] = loadFunction(d, source[d], passNo)[1]
        /\ \A gone \in last.ids \ ValidIds(source) :
              gone \notin DOMAIN scheduledTasks /\ gone \notin TimerIds
        /\ \A come \in ValidIds(source) \ last.ids :
              cronValidate(source[come].schedule) =>
                  /\ come \in DOMAIN scheduledTasks
                  /\ scheduledTasks[come] = Timer(loadedFunctions[come])
                  /\ CopiesIn(scheduledTasks[come], liveTimers) = 1
    /\ (passNo >= 2 /\ pc = "ready") =>
        /\ BagToSet(liveTimers) = Range(scheduledTasks)
        /\ TimerIds \subseteq DOMAIN loadedFunctions
        /\ (last.op \in {"accepted", "rejected"} /\ last.scheduled) =>
              last.id \in DOMAIN loadedFunctions

\* C9 witness: a reload has completed in which a registered task went, and a
\* task came and got a trigger.
C9_Witness ==
    /\ last.op = "reloaded"
    /\ last.ids \ DOMAIN loadedFunctions # {}
    /\ \E come \in DOMAIN loadedFunctions \ last.ids : come \in TimerIds

\* C10: when start-up (load the registry, then start the scheduler) has
\* completed, the ids with a live trigger are the ids of all discovered tasks
\* that have a valid schedule.
C10_StartupSchedulesAllDiscovered ==
    last.op = "loaded" =>
        LET due == {func.id : func \in
                      {g \in getAllFunctions(loadedFunctions) : Schedulable(g)}}
        IN  /\ DOMAIN scheduledTasks = due
            /\ TimerIds = due

\* C11: immediately after start(), scheduledTasks holds exactly one trigger,
\* live and bound to the registered descriptor, for each task returned by
\* getScheduledFunctions() whose cron expression is valid, and none for any
\* other id.
C11_StartSchedulesValidCron ==
    last.op = "started" =>
        LET due == {func.id : func \in
                      {g \in getScheduledFunctions(loadedFunctions) :
                          cronValidate(g.schedule)}}
        IN  /\ DOMAIN scheduledTasks = due
            /\ \A id \in due :
                  /\ scheduledTasks[id] = Timer(loadedFunctions[id])
                  /\ CopiesIn(scheduledTasks[id], liveTimers) = 1
            /\ BagToSet(liveTimers) = Range(scheduledTasks)

\* C11 witness: start() has just run and has created a trigger.
C11_Witness ==
    /\ last.op = "started"
    /\ DOMAIN scheduledTasks # {}
    /\ DOMAIN scheduledTasks = DOMAIN loadedFunctions

\* C12: stop() leaves no live trigger: scheduledTasks is empty afterwards and
\* every timer it held is cancelled; and a stop() that follows a stop(), or
\* that finds nothing scheduled, completes and changes nothing.
C12_StopCancelsAllAndIsIdempotent ==
    [][last'.op = "stopped" =>
        /\ scheduledTasks' = EmptyMap
        /\ \A id \in DOMAIN scheduledTasks :
              CopiesIn(scheduledTasks[id], liveTimers') = 0
        /\ liveTimers' = EmptyBag
        /\ (proc.stopped \/ scheduledTasks = EmptyMap) =>
              /\ scheduledTasks' = scheduledTasks
              /\ liveTimers' = liveTimers
              /\ UNCHANGED <<runningExecutions, history, disk, inflight>>]_vars

\* C12 witness: stop() has been called for the second time in a row, and
\* found no handle to cancel.
C12_Witness ==
    /\ last.op = "stopped"
    /\ proc.stops = 2
    /\ last.ids = {}
    /\ scheduledTasks = EmptyMap
    /\ liveTimers = EmptyBag

\* The scheduler after stop() followed by start().
StopThenStart(tasks, timers, loaded) ==
    LET stopped == stop(tasks, timers)
    IN  start(stopped.tasks, stopped.timers, loaded)

\* C13: in every state reschedule() would give the scheduledTasks and live
\* timers that stop() followed by start() would give, and the reschedule()
\* of a reload does give them and leaves the RunningSet and the history as
\* they were, as stop() and start() do.
C13_RescheduleIsStopThenStart ==
    /\ [](reschedule(scheduledTasks, liveTimers, loadedFunctions)
            = StopThenStart(scheduledTasks, liveTimers, loadedFunctions))
    /\ [][last'.op = "reloaded" =>
            LET both == StopThenStart(scheduledTasks, liveTimers, loadedFunctions')
            IN  /\ scheduledTasks' = both.tasks
                /\ liveTimers' = both.timers
                /\ runningExecutions' = runningExecutions
                /\ history' = history]_vars

\* C13 witness: reschedule() has run while a body was running, and a task
\* registered before the reload has a trigger bound to its new descriptor.
C13_Witness ==
    /\ last.op = "reloaded"
    /\ DOMAIN runningExecutions # {}
    /\ \E id \in last.ids \cap DOMAIN scheduledTasks :
           scheduledTasks[id].func.loaded = passNo

\* C14: stop() and reschedule() leave the RunningSet, the history and the
\* running bodies as they are; a body that was running when they were called
\* settles later with its record ended and its id out of the RunningSet;
\* after stop() no scheduled fire happens; and a manual trigger after stop()
\* that finds its task idle is executed.
C14_StopDoesNotTouchExecutions ==
    /\ [][last'.op \in {"stopped", "reloaded"} =>
            /\ runningExecutions' = runningExecutions
            /\ history' = history
            /\ inflight' = inflight]_vars
    /\ []((last.op = "settled" /\ last.held) =>
            /\ Executions(history, last.id)[last.idx].status \in {"success", "failed"}
            /\ Executions(history, last.id)[last.idx].endTime # Null
            /\ last.id \notin DOMAIN runningExecutions)
    /\ [](proc.stopped =>
            /\ liveTimers = EmptyBag
            /\ ~(last.op \in {"accepted", "rejected"} /\ last.scheduled)
            /\ (last.op \in {"accepted", "rejected"} /\ ~last.wasRunning) =>
                  /\ last.op = "accepted"
                  /\ \E call \in CallsOf(last.id) : call.idx = last.idx)

\* C15: when the process has been started again the RunningSet is empty,
\* whatever was executing when the process before it ended; and the first
\* trigger the new process receives for a task that was in the RunningSet
\* then is accepted and invokes the body.
C15_RestartEmptiesRunningSet ==
    /\ last.op = "restarted" =>
          /\ runningExecutions = EmptyMap
          /\ \A id \in last.ids : ~isFunctionRunning(id)
    /\ (/\ last.op \in {"accepted", "rejected"}
        /\ last.id \in proc.crashed
        /\ counts[last.id].triggers = 1) =>
          /\ last.op = "accepted"
          /\ ~last.wasRunning
          /\ counts[last.id].invoked = 1
          /\ \E call \in CallsOf(last.id) : call.idx = last.idx

\* C15 witness: a task that was running when the process ended, and has a
\* 'running' record from then, has been triggered for the first time in the
\* new process and its body runs.
C15_Witness ==
    /\ last.op = "accepted"
    /\ last.id \in proc.crashed
    /\ counts[last.id].triggers = 1
    /\ RunningRecords(history, last.id) # {last.idx}

C17_HungTaskBlocksItsTriggers ==
    /\ [](\A d \in Dirs : CallsOf(d) # {} => d \in DOMAIN runningExecutions)
    /\ [][\A d \in Dirs : \A call \in CallsOf(d) :
            \/ last'.op = "restarted"
            \/ last'.op = "settled" /\ last'.id = d /\ last'.idx = call.idx
            \/ /\ call \in inflight'
               /\ d \in DOMAIN runningExecutions'
               /\ (last'.op \in {"accepted", "rejected"} /\ last'.id = d) =>
                     /\ last'.op = "rejected"
                     /\ counts'[d].invoked = counts[d].invoked
                     /\ CallsOf(d)' = CallsOf(d)
                     /\ \E i \in DOMAIN Executions(history', d) :
                           /\ Executions(history', d)[i].id = last'.executionId
                           /\ Executions(history', d)[i].status = "failed"
                           /\ Executions(history', d)[i].error = "Already running"]_vars

\* C17 witness: a body started by the timer is still running, in a process
\* that was started after another had ended, and a manual trigger for the
\* task has been rejected.
C17_Witness ==
    /\ last.op = "rejected"
    /\ ~last.scheduled
    /\ proc.bootedAt > 0
    /\ \E call \in CallsOf(last.id) : call.scheduled /\ call.idx < last.idx

\* C18: the guard is per task id.  A trigger is rejected only if its own
\* task is in the RunningSet, whatever other tasks are doing, and otherwise
\* invokes the body; and a step of an execution of task A (its start, its
\* rejection, its completion or failure) changes no other task's records,
\* RunningSet entry or running body, and no trigger.
C18_GuardIsPerTask ==
    /\ [](last.op \in {"accepted", "rejected"} =>
            /\ (last.op = "rejected") = last.wasRunning
            /\ last.op = "accepted" =>
                  \E call \in CallsOf(last.id) : call.idx = last.idx)
    /\ [][last'.op \in {"accepted", "rejected", "settled"} =>
            /\ \A B \in Dirs \ {last'.id} :
                  /\ Executions(history', B) = Executions(history, B)
                  /\ Executions(disk', B) = Executions(disk, B)
                  /\ (B \in DOMAIN runningExecutions') = (B \in DOMAIN runningExecutions)
                  /\ B \in DOMAIN runningExecutions =>
                        runningExecutions'[B] = runningExecutions[B]
                  /\ CallsOf(B)' = CallsOf(B)
            /\ scheduledTasks' = scheduledTasks
            /\ liveTimers' = liveTimers]_vars

\* C18 witness: the timer of task B has fired and B's body has been invoked
\* while another task A, which failed before, is running again.
C18_Witness ==
    /\ last.op = "accepted"
    /\ last.scheduled
    /\ \E A \in Dirs \ {last.id} :
          /\ CallsOf(A) # {}
          /\ A \in DOMAIN runningExecutions
          /\ \E i \in DOMAIN Executions(history, A) :
                /\ Executions(history, A)[i].status = "failed"
                /\ Executions(history, A)[i].error \in Messages

\* C19: when an execution fails, the rejection of executeFunction is handled
\* by its caller, the timer callback as well as Runner.executeFunction, so
\* that nothing is left unhandled; and the trigger of a task whose scheduled
\* execution failed stays live.
C19_FailureHandledByCaller ==
    (last.op = "settled" /\ last.thrown # "none") =>
        /\ ~last.unhandled
        /\ last.scheduled =>
              /\ last.id \in DOMAIN scheduledTasks
              /\ CopiesIn(scheduledTasks[last.id], liveTimers) = 1

\* C20: a trigger rejected because its task is already running does not
\* fail: executeFunction returns without throwing, so nothing is left
\* unhandled for either caller, and showFailure is not called.
C20_RejectionIsNotAnError ==
    last.op = "rejected" =>
        /\ last.wasRunning
        /\ last.thrown = "none"
        /\ last.shown = 0
        /\ ~last.unhandled

\* C20 witness: a scheduled fire has been rejected while a body of its task,
\* started from the menu, was running.
C20_Witness ==
    /\ last.op = "rejected"
    /\ last.scheduled
    /\ \E call \in CallsOf(last.id) : ~call.scheduled

\* C21: a task whose schedule is not a valid cron expression is registered
\* by the discovery pass (getFunction and getAllFunctions return it), has no
\* trigger in scheduledTasks and no live timer, and runs when triggered
\* manually; and every scheduling gives the registered tasks with a valid
\* expression their triggers all the same.
C21_InvalidCronRegisteredNotScheduled ==
    /\ last.op \in {"loaded", "reloaded"} =>
          \A d \in Dirs :
              (/\ source[d].index = "ok"
               /\ source[d].name = "string"
               /\ source[d].execute = "function"
               /\ source[d].schedule = "badcron") =>
                  /\ getFunction(loadedFunctions, d) # <<>>
                  /\ getFunction(loadedFunctions, d)[1].schedule = "badcron"
                  /\ getFunction(loadedFunctions, d)[1] \in getAllFunctions(loadedFunctions)
                  /\ getFunction(loadedFunctions, d)[1] \in runnerFunctions
    /\ pc = "ready" =>
          \A id \in DOMAIN loadedFunctions :
              loadedFunctions[id].schedule = "badcron" =>
                  id \notin DOMAIN scheduledTasks /\ id \notin TimerIds
    /\ last.op \in {"started", "reloaded"} =>
          \A id \in DOMAIN loadedFunctions :
              loadedFunctions[id].schedule = "cron" =>
                  /\ id \in DOMAIN scheduledTasks
                  /\ CopiesIn(scheduledTasks[id], liveTimers) = 1
    /\ (/\ last.op \in {"accepted", "rejected"}
        /\ ~last.scheduled
        /\ ~last.wasRunning
        /\ last.id \in DOMAIN loadedFunctions
        /\ loadedFunctions[last.id].schedule = "badcron") =>
          /\ last.op = "accepted"
          /\ \E call \in CallsOf(last.id) : call.idx = last.idx

\* C21 witness: a registered task with an invalid expression has been started
\* from the menu and is running, while another task has its trigger.
C21_Witness ==
    /\ last.op = "accepted"
    /\ ~last.scheduled
    /\ last.id \in DOMAIN loadedFunctions
    /\ loadedFunctions[last.id].schedule = "badcron"
    /\ CallsOf(last.id) # {}
    /\ \E other \in DOMAIN scheduledTasks : other # last.id

\* C22: a completed discovery pass has returned, and the registry holds,
\* exactly the units of the source that load and validate, each once and as
\* loaded in this pass, whatever invalid units (no index.js, a module that
\* throws, a module that fails validation) the source holds and wherever
\* the listing puts them.
C22_PassReturnsExactlyValidUnits ==
    last.op \in {"loaded", "reloaded"} =>
        /\ {func.id : func \in runnerFunctions} = ValidIds(source)
        /\ Cardinality(runnerFunctions) = Cardinality(ValidIds(source))
        /\ DOMAIN loadedFunctions = ValidIds(source)
        /\ \A d \in ValidIds(source) :
              /\ loadFunction(d, source[d], passNo)[1] \in runnerFunctions
              /\ loadedFunctions[d] = loadFunction(d, source[d], passNo)[1]
        /\ \A d \in Dirs :
              (source[d].index \in {"missing", "throws"} \/ ~validateFunction(source[d]))
                  => /\ d \notin DOMAIN loadedFunctions
                     /\ \A func \in runnerFunctions : func.id # d

\* C22 witness: a reload has completed over a source that holds one valid
\* unit and one unit that is present but invalid.
C22_Witness ==
    /\ last.op = "reloaded"
    /\ Cardinality(runnerFunctions) = 1
    /\ \E d \in Dirs :
          /\ source[d].index \in {"missing", "throws", "ok"}
          /\ d \notin DOMAIN loadedFunctions

\* C23: of the modules a completed pass has required, one whose schedule
\* field is present with a value that is not a string is not registered, nor
\* is one whose name is missing or not a string or whose execute is missing
\* or not a function; and a module with a name, an execute function and no
\* schedule field is registered as manual-only.
C23_ValidationRejectsNonStringSchedule ==
    last.op \in {"loaded", "reloaded"} =>
        \A d \in Dirs :
            source[d].index = "ok" =>
                LET m == source[d]
                    nameBad == m.name = "undefined" \/ ~TypeofString(m.name)
                    executeBad == m.execute = "undefined" \/ ~TypeofFunction(m.execute)
                    scheduleBad == m.schedule # "undefined" /\ ~TypeofString(m.schedule)
                IN  /\ (nameBad \/ executeBad \/ scheduleBad) =>
                          getFunction(loadedFunctions, d) = <<>>
                    /\ (/\ m.name = "string"
                        /\ m.execute = "function"
                        /\ m.schedule = "undefined"
                        /\ m.description = "undefined") =>
                          /\ getFunction(loadedFunctions, d) # <<>>
                          /\ ~Truthy(getFunction(loadedFunctions, d)[1].schedule)

\* C24: while reloadFunctions is in progress (the registry cleared and being
\* refilled) no timer callback, manual trigger, continuation of a running
\* task or menu rebuild runs; each of them runs in a state where the registry
\* holds exactly the set the last completed pass returned, which is also the
\* set the Runner holds; and the pass hands over a registry equal to the set
\* it returns.
ObserverStep ==
    \/ acted' # acted
    \/ inflight' # inflight
    \/ history' # history
    \/ runningExecutions' # runningExecutions
    \/ (menu' # menu /\ pc' = pc)

CompleteSet ==
    /\ getAllFunctions(loadedFunctions) = runnerFunctions
    /\ DOMAIN loadedFunctions = {func.id : func \in runnerFunctions}
    /\ getScheduledFunctions(loadedFunctions) =
           {func \in runnerFunctions : Truthy(func.schedule)}
    /\ \A func \in runnerFunctions : getFunction(loadedFunctions, func.id) = <<func>>

Descriptor(func) ==
    [id |-> func.id, name |-> func.name, description |-> func.description,
     schedule |-> func.schedule]

Descriptors(funcs) == {Descriptor(func) : func \in funcs}

\* C25: after a discovery pass has completed, getAllFunctions() is exactly the
\* set the pass returned, with one entry per id, every entry made by that
\* pass (none left over from an earlier one); and a pass over a source that
\* has not changed since the previous pass returns the same descriptors as
\* the previous pass did.
C25_PassLeavesExactlyItsResult ==
    /\ [](last.op \in {"loaded", "reloaded"} =>
            /\ getAllFunctions(loadedFunctions) = runnerFunctions
            /\ Cardinality(getAllFunctions(loadedFunctions)) =
                   Cardinality(DOMAIN loadedFunctions)
            /\ \A func \in runnerFunctions, other \in runnerFunctions :
                   func.id = other.id => func = other
            /\ \A func \in getAllFunctions(loadedFunctions) :
                   /\ func.loaded = passNo
                   /\ loadFunction(func.id, source[func.id], passNo) = <<func>>)
    /\ [][(pc = "reloading" /\ pc' = "ready" /\ proc.scanned = source) =>
            /\ Descriptors(runnerFunctions') = Descriptors(runnerFunctions)
            /\ Descriptors(getAllFunctions(loadedFunctions')) =
                   Descriptors(runnerFunctions)]_vars

\* a second pass has completed over the source the first pass saw, the first
\* having returned a task; a directory holds a unit that is not registered
C25_Witness ==
    /\ last.op = "reloaded"
    /\ last.unchanged
    /\ passNo = 2
    /\ runnerFunctions # {}
    /\ last.ids = {func.id : func \in runnerFunctions}
    /\ \E d \in Dirs : source[d].index = "ok" /\ d \notin DOMAIN loadedFunctions

\* C26: when recordExecutionEnd(success = true) is called with the id that
\* the recordExecutionStart of an execution returned, the record that start
\* appended has status 'success', error null, an endTime, and a duration
\* equal to endTime - startTime and not negative.
C26_StartThenEndSucceeds ==
    (last.op = "settled" /\ last.outcome = "return") =>
        LET execution == Executions(history, last.id)[last.idx]
        IN  /\ execution.id = last.executionId
            /\ execution.status = "success"
            /\ execution.error = NoError
            /\ execution.endTime # Null
            /\ execution.duration # Null
            /\ execution.duration = execution.endTime - execution.startTime
            /\ execution.duration >= 0

\* C27: a recordExecutionEnd for a task that has no history entry, or with an
\* execution id that none of the task's records has, changes no record of
\* any task: the in-memory history and the persisted document stay as they
\* were.
UnknownExecution(h, functionId, executionId) ==
    \/ functionId \notin DOMAIN h
    \/ \A i \in DOMAIN h[functionId].executions :
          h[functionId].executions[i].id # executionId

C27_UnknownEndChangesNothing ==
    [][(last'.op = "ended" /\ UnknownExecution(history, last'.id, last'.executionId)) =>
          /\ history' = history
          /\ disk' = disk]_vars

\* an end was attempted for an execution id that the task, which has a
\* record, does not have, while the other task has a running record
C27_Witness ==
    /\ last.op = "ended"
    /\ last.id \in DOMAIN history
    /\ Len(history[last.id].executions) > 0
    /\ UnknownExecution(history, last.id, last.executionId)
    /\ \E other \in DOMAIN history : other # last.id /\ RunningRecords(history, other) # {}
    /\ RunningRecords(history, last.id) # {}

\* C28: getExecutionHistory(taskId, limit) with a limit >= 0 returns at most
\* limit records: the min(limit, number of records) most recently inserted
\* ones, the most recent first; and the empty sequence for a task without a
\* history entry.
C28_HistoryCappedMostRecentFirst ==
    last.op = "history" =>
        LET executions == Executions(history, last.id)
            result == last.result
            expected == IF last.limit < Len(executions) THEN last.limit
                        ELSE Len(executions)
        IN  /\ Len(result) <= last.limit
            /\ Len(result) = expected
            /\ \A i \in 1..Len(result) : result[i] = executions[Len(executions) + 1 - i]
            /\ last.id \notin DOMAIN history => result = <<>>

\* Whether a record with this startTime (a stamp of day 0) is not older than
\* the clock reading (d, t) set back by maxAge days.
NotOlderThanCutoff(startTime, maxAge, d, t) ==
    \/ d - maxAge < 0
    \/ (d - maxAge = 0 /\ startTime >= t)

\* C29: cleanupOldHistory(maxAge) keeps, in every task and in their order,
\* exactly the records whose startTime is not older than the clock reading
\* set back by maxAge days, removes the others, and a second cleanup at once
\* changes nothing further.
C29_CleanupRemovesExactlyTheOlder ==
    [][last'.op = "cleaned" =>
          /\ DOMAIN history' = DOMAIN history
          /\ \A f \in DOMAIN history :
                history'[f].executions =
                    SelectSeq(history[f].executions,
                              LAMBDA execution :
                                  NotOlderThanCutoff(execution.startTime,
                                                     last'.maxAge, day, now))
          /\ cleanupOldHistory(history', last'.maxAge, day, now) = history'
          /\ disk' = history']_vars

\* Whether the time elapsed from a stamp of day 0 to the clock reading
\* (day, now) is at least wholeDays days and ms milliseconds (ms at most two
\* days).
ElapsedAtLeast(stamp, wholeDays, ms) ==
    IF day - wholeDays >= 2 THEN TRUE
    ELSE IF day - wholeDays <= -2 THEN FALSE
    ELSE (day - wholeDays) * DayMs + (now - stamp) >= ms

\* C30: getLastRunText gives 'Never' for a task without an execution, and
\* otherwise exactly the bucket of the time d elapsed since the end (the
\* start, for a record that has not ended) of the task's last record:
\* 'Just now' iff d < 60000, n minutes iff 60000 <= d < 3600000, n hours iff
\* 3600000 <= d < 86400000, n days iff 86400000 <= d < 2592000000, the date
\* iff d >= 2592000000; n is the number of whole units in d, and the unit is
\* in the plural iff n is not 1.
C30_LastRunTextBuckets ==
    last.op = "text" =>
        \A f \in Dirs :
            LET text == last.text[f]
                executions == Executions(history, f)
            IN  IF executions = <<>> THEN text = Fixed("Never")
                ELSE LET lastExecution == executions[Len(executions)]
                         stamp == IF lastExecution.endTime # Null
                                  THEN lastExecution.endTime
                                  ELSE lastExecution.startTime
                     IN  /\ text.unit \in {"Just now", "minute", "hour", "day", "date"}
                         /\ text.unit = "Just now" <=>
                                ~ElapsedAtLeast(stamp, 0, MinuteMs)
                         /\ text.unit = "minute" <=>
                                /\ ElapsedAtLeast(stamp, 0, MinuteMs)
                                /\ ~ElapsedAtLeast(stamp, 0, HourMs)
                         /\ text.unit = "hour" <=>
                                /\ ElapsedAtLeast(stamp, 0, HourMs)
                                /\ ~ElapsedAtLeast(stamp, 1, 0)
                         /\ text.unit = "day" <=>
                                /\ ElapsedAtLeast(stamp, 1, 0)
                                /\ ~ElapsedAtLeast(stamp, MonthDays, 0)
                         /\ text.unit = "date" <=>
                                ElapsedAtLeast(stamp, MonthDays, 0)
                         /\ text.unit = "minute" =>
                                /\ text.n \in 1..59
                                /\ ElapsedAtLeast(stamp, 0, text.n * MinuteMs)
                                /\ ~ElapsedAtLeast(stamp, 0, (text.n + 1) * MinuteMs)
                         /\ text.unit = "hour" =>
                                /\ text.n \in 1..23
                                /\ ElapsedAtLeast(stamp, 0, text.n * HourMs)
                                /\ ~ElapsedAtLeast(stamp, 0, (text.n + 1) * HourMs)
                         /\ text.unit = "day" =>
                                /\ text.n \in 1..(MonthDays - 1)
                                /\ ElapsedAtLeast(stamp, text.n, 0)
                                /\ ~ElapsedAtLeast(stamp, text.n + 1, 0)
                         /\ text.unit \in {"minute", "hour", "day"} =>
                                (text.s <=> text.n # 1)

\* thirty days to the millisecond after the end of a's last record, and one
\* millisecond less after the end of b's: a date for a, 29 days for b
C30_Witness ==
    /\ last.op = "text"
    /\ day = MonthDays
    /\ now = 0
    /\ last.text["a"].unit = "date"
    /\ getLastExecution(history, "a") # <<>>
    /\ getLastExecution(history, "a")[1].endTime = 0
    /\ last.text["b"] = Ago(MonthDays - 1, "day")
    /\ getLastExecution(history, "b") # <<>>
    /\ getLastExecution(history, "b")[1].endTime = 1

\* C31: getFunctionStats gives 0 for all five values when the task has no
\* record (no history entry, or an entry emptied by a cleanup); otherwise
\* totalExecutions is the number of records, successfulExecutions and
\* failedExecutions are the numbers of records with status 'success' and
\* 'failed', and successRate is successfulExecutions / totalExecutions.
C31_StatsCountRecords ==
    last.op = "stats" =>
        LET executions == Executions(history, last.id)
            stats == last.result
            successes == {i \in DOMAIN executions : executions[i].status = "success"}
            failures == {i \in DOMAIN executions : executions[i].status = "failed"}
        IN  IF executions = <<>>
            THEN /\ stats.totalExecutions = 0
                 /\ stats.successfulExecutions = 0
                 /\ stats.failedExecutions = 0
                 /\ stats.averageDuration.num = 0
                 /\ stats.successRate.num = 0
            ELSE /\ stats.totalExecutions = Len(executions)
                 /\ stats.successfulExecutions = Cardinality(successes)
                 /\ stats.failedExecutions = Cardinality(failures)
                 /\ stats.successRate.num * stats.totalExecutions =
                        stats.successfulExecutions * stats.successRate.den
                 /\ stats.successRate.den > 0

\* statistics of a task with a successful and a failed record
C31_Witness ==
    /\ last.op = "stats"
    /\ last.result.totalExecutions = 2
    /\ last.result.successfulExecutions = 1
    /\ last.result.failedExecutions = 1
    /\ last.result.successRate = [num |-> 1, den |-> 2]

\* execution.duration is not null
HasDuration(e) == e.duration # Null

\* C32: the average duration of getFunctionStats is the mean of the durations
\* of exactly the records whose duration is not null, a duration of 0 ms
\* included (0 when there is no such record); running records do not count.
C32_AverageOverEndedRecords ==
    last.op = "stats" =>
        LET executions == Executions(history, last.id)
            ended == SelectSeq(executions, HasDuration)
            average == last.result.averageDuration
        IN  /\ \A i \in DOMAIN executions :
                  executions[i].status = "running" <=> executions[i].duration = Null
            /\ average.den > 0
            /\ IF ended = <<>> THEN average.num = 0
               ELSE average.num * Len(ended) = SumDurations(ended) * average.den

\* C33: where getLastRunText answers in minutes, hours or days, the number
\* shown is the whole number of units in the elapsed time, floor(d / unit),
\* and the unit word is in the singular when that number is 1 and in the
\* plural for every other number.
C33_WholeUnitsAndPlural ==
    last.op = "text" =>
        \A f \in Dirs :
            LET text == last.text[f]
                lastExecution == getLastExecution(history, f)[1]
                stamp == IF lastExecution.endTime # Null THEN lastExecution.endTime
                         ELSE lastExecution.startTime
                unitMs == IF text.unit = "minute" THEN MinuteMs ELSE HourMs
            IN  /\ text.unit \in {"minute", "hour"} =>
                      /\ day <= 1
                      /\ text.n = (day * DayMs + now - stamp) \div unitMs
                /\ text.unit = "day" =>
                      text.n = IF now >= stamp THEN day ELSE day - 1
                /\ text.unit \in {"minute", "hour", "day"} =>
                      /\ text.n >= 1
                      /\ text.n = 1 => ~text.s
                      /\ text.n # 1 => text.s

\* '2 minutes ago' for a and '1 minute ago' for b, whose record ended a
\* millisecond later
C33_Witness ==
    /\ last.op = "text"
    /\ last.text["a"].unit = "minute" /\ last.text["a"].n = 2 /\ last.text["a"].s
    /\ last.text["b"].unit = "minute" /\ last.text["b"].n = 1 /\ ~last.text["b"].s
    /\ now = 2 * MinuteMs

\* C34: after a recordExecutionStart, a recordExecutionEnd on a known record
\* or a cleanupOldHistory whose write succeeds, the persisted document equals
\* the in-memory history; when the write fails the in-memory history holds
\* the mutation all the same (the new record, the ended record, the records
\* that remain), the file does not; and a read is answered from memory.
C34_WriteThroughNoRollback ==
    /\ [][last'.wrote # "none" =>
            /\ last'.op \in {"begun", "ended", "cleaned"}
            /\ last'.wrote = "written" => disk' = history'
            /\ last'.wrote # "written" => disk' = disk
            /\ last'.op = "begun" =>
                  /\ history' = recordExecutionStart(history, last'.id, last'.id, now)
                  /\ getLastExecution(history', last'.id) = <<NewExecution(now)>>
            /\ last'.op = "ended" =>
                  /\ ~UnknownExecution(history, last'.id, last'.executionId)
                  /\ \E i \in DOMAIN history'[last'.id].executions :
                        LET execution == history'[last'.id].executions[i]
                        IN  /\ execution.id = last'.executionId
                            /\ execution.endTime = now
                            /\ execution.status =
                                   IF last'.outcome = "return" THEN "success"
                                   ELSE "failed"
            /\ last'.op = "cleaned" =>
                  history' = cleanupOldHistory(history, last'.maxAge, day, now)]_vars
    /\ [][(last'.op = "ended" /\ last'.wrote = "none") =>
            UnknownExecution(history, last'.id, last'.executionId)]_vars
    /\ [](last.op = "text" =>
            \A f \in Dirs :
                last.text[f] = Fixed("Never") <=> Executions(history, f) = <<>>)

\* after a failed write: task a's only record is in memory and not in the
\* file, and the menu shows it
C34_Witness ==
    /\ last.op = "text"
    /\ "a" \in DOMAIN history
    /\ "a" \in DOMAIN disk
    /\ Len(history["a"].executions) = 1
    /\ disk["a"].executions = <<>>
    /\ last.text["a"] = Fixed("Just now")

\* C35: getStatus() returns four values that agree with the scheduler at
\* the call: two numbers, the number of live triggers and the number of
\* running executions, and two lists, the ids of the live triggers and the
\* ids of the running executions.
C35_StatusHasFourValues ==
    last.op = "status" =>
        LET status == last.result
            numbers == {key \in DOMAIN status : status[key].type = "number"}
            arrays == {key \in DOMAIN status : status[key].type = "array"}
        IN  /\ Cardinality(DOMAIN status) = 4
            /\ \E scheduledCount \in numbers, runningCount \in numbers :
                  /\ scheduledCount # runningCount
                  /\ status[scheduledCount].number = Cardinality(TimerIds)
                  /\ status[runningCount].number = Cardinality(DOMAIN runningExecutions)
            /\ \E scheduledIds \in arrays, runningIds \in arrays :
                  /\ scheduledIds # runningIds
                  /\ status[scheduledIds].elements = TimerIds
                  /\ status[runningIds].elements = DOMAIN runningExecutions

\* C36: when the body of an accepted execution throws, be the thrown value
\* an Error with a message, a value without a message property, or null, the
\* record created for that execution has status 'failed' afterwards, not
\* 'running', and the task id is no longer in runningExecutions.
C36_ThrowEndsRecordAsFailed ==
    (last.op = "settled" /\ last.outcome \in {"error", "nomessage", "null"}) =>
        LET execution == Executions(history, last.id)[last.idx]
        IN  /\ execution.status # "running"
            /\ execution.status = "failed"
            /\ ~isFunctionRunning(last.id)

\* C37: for every task id in runningExecutions, the execution id stored for
\* it is the id of a record of that task with status 'running', namely the
\* record created by the accepted execution that is in flight; and a
\* rejected trigger leaves runningExecutions as it is.
C37_RunningSetNamesItsRunningRecord ==
    /\ [](\A id \in DOMAIN runningExecutions :
            /\ Cardinality(CallsOf(id)) = 1
            /\ \A call \in CallsOf(id) :
                  /\ call.executionId = runningExecutions[id]
                  /\ call.idx \in DOMAIN Executions(history, id)
                  /\ Executions(history, id)[call.idx].id = runningExecutions[id]
                  /\ Executions(history, id)[call.idx].status = "running"
            /\ LET found == FindExecution(Executions(history, id), runningExecutions[id])
               IN  /\ found # 0
                   /\ Executions(history, id)[found].status = "running")
    /\ [][last'.op = "rejected" => runningExecutions' = runningExecutions]_vars

\* C38: every call of executeFunction, accepted or rejected, makes the
\* task's list of records one longer, the new record (started at the clock
\* reading of the call) being the last, and leaves the lists of the other
\* tasks as they are; so, no record being removed, a task has as many
\* records as it has received triggers.
C38_OneRecordPerTrigger ==
    /\ [](\A d \in Dirs : Len(Executions(history, d)) = counts[d].triggers)
    /\ [][last'.op \in {"accepted", "rejected"} =>
            LET id == last'.id
                before == Executions(history, id)
                after == Executions(history', id)
            IN  /\ counts'[id].triggers = counts[id].triggers + 1
                /\ Len(after) = Len(before) + 1
                /\ last'.idx = Len(after)
                /\ after[Len(after)].id = last'.executionId
                /\ after[Len(after)].startTime = now
                /\ \A i \in DOMAIN before :
                      /\ after[i].id = before[i].id
                      /\ after[i].startTime = before[i].startTime
                /\ \A d \in Dirs \ {id} :
                      /\ Executions(history', d) = Executions(history, d)
                      /\ counts'[d] = counts[d]]_vars
    /\ [][Len(Executions(history', "a")) + Len(Executions(history', "b")) #
            Len(Executions(history, "a")) + Len(Executions(history, "b")) =>
              last'.op \in {"accepted", "rejected"}]_vars

\* a's second trigger has been rejected and a has two records, while b has
\* the one record of its one trigger
C38_Witness ==
    /\ last.op = "rejected"
    /\ counts[last.id].triggers = 2
    /\ Len(Executions(history, last.id)) = 2
    /\ \E d \in Dirs \ {last.id} :
          counts[d].triggers = 1 /\ Len(Executions(history, d)) = 1

\* C39: at every moment there is at most one live timer per task id, and
\* every live timer is the handle that scheduledTasks holds for its id: a
\* timer made by an earlier start or reschedule no longer fires once it has
\* been replaced or the scheduler stopped.
C39_NoTimerOutlivesItsHandle ==
    /\ \A timer \in BagToSet(liveTimers) :
          /\ CopiesIn(timer, liveTimers) = 1
          /\ timer.func.id \in DOMAIN scheduledTasks
          /\ scheduledTasks[timer.func.id] = timer
    /\ \A timer \in BagToSet(liveTimers), other \in BagToSet(liveTimers) :
          timer.func.id = other.func.id => timer = other
    /\ last.op = "stopped" => liveTimers = EmptyBag
    /\ last.op = "reloaded" =>
          \A timer \in BagToSet(liveTimers) : timer.func.loaded = passNo

\* a reload after a stop and a start: the timers are those of the second
\* pass, one for each of the two tasks
C39_Witness ==
    /\ last.op = "reloaded"
    /\ passNo = 2
    /\ proc.stops >= 1
    /\ TimerIds = {"a", "b"}
    /\ "a" \in last.ids

\* the executions of a task that began through a descriptor of an earlier pass
CallsBeforeReload(id) == {call \in CallsOf(id) : call.func.loaded < passNo}

\* C40: a reload and the reschedule that ends it leave the RunningSet and the
\* running bodies as they are; after a reload, a trigger for a task whose
\* body, started before the reload, has not completed is rejected (no body
\* invoked, RunningSet unchanged, a record of the task ended as failed with
\* 'Already running'), and a trigger for a task with no body in flight is
\* accepted and runs the body of the new descriptor.
C40_GuardSurvivesReload ==
    /\ [][(pc = "reloading" \/ pc' = "reloading") =>
            UNCHANGED <<runningExecutions, inflight>>]_vars
    /\ [][(passNo >= 2 /\ last'.op \in {"accepted", "rejected"}) =>
            LET id == last'.id
                after == Executions(history', id)
            IN  /\ CallsBeforeReload(id) # {} =>
                      /\ last'.op = "rejected"
                      /\ inflight' = inflight
                      /\ runningExecutions' = runningExecutions
                      /\ counts'[id].invoked = counts[id].invoked
                      /\ \E i \in DOMAIN after :
                            /\ after[i].id = last'.executionId
                            /\ after[i].status = "failed"
                            /\ after[i].error = "Already running"
                /\ CallsOf(id) = {} =>
                      /\ last'.op = "accepted"
                      /\ id \in DOMAIN runningExecutions'
                      /\ counts'[id].invoked = counts[id].invoked + 1
                      /\ \E call \in inflight' \ inflight :
                            /\ call.func.id = id
                            /\ call.func.loaded = passNo]_vars

\* after a reload, a trigger has just been rejected for a task whose body,
\* started through the descriptor of the first pass, is still running
C40_Witness ==
    /\ pc = "ready"
    /\ passNo = 2
    /\ last.op = "rejected"
    /\ \E call \in CallsOf(last.id) : call.func.loaded = 1
    /\ \E func \in runnerFunctions : func.id = last.id /\ func.loaded = 2

====
